---------------------------- MODULE Spec2Model ----------------------------
(***************************************************************************)
(* ibmon: the Bubble Tea monitor of src/main.go.  One event loop owns a    *)
(* list of per-port statuses and a viewport; it reacts to tick, window     *)
(* size and key messages.                                                  *)
(*                                                                         *)
(* Units.  A counter value k of the model stands for k * 12 500 000 000    *)
(* bytes (100 Gbit), so that float64(diff)*8/1e9 is diff*100.  An interval *)
(* is a number of milliseconds.  A float64 is a pair <<n, d>>: with d > 0  *)
(* the rational n/d in lowest terms, <<1, 0>> is +Inf, <<-1, 0>> is -Inf   *)
(* and <<0, 0>> is NaN.  Rounding and the sign of zero are not modelled.   *)
(***************************************************************************)
EXTENDS Integers, Sequences, FiniteSets, TLC

(* ------------------------------ bounds --------------------------------- *)

\* counter files hold values 0..MaxCounter
MaxCounter == 2

\* terminal widths 0..MaxWidth of the layout specification
MaxWidth == 130

\* header widths up to MaxHeader of the layout specification
MaxHeader == 45

(* ------------------------------ float64 -------------------------------- *)

Abs(i) == IF i < 0 THEN -i ELSE i

Sign(i) == IF i < 0 THEN -1 ELSE IF i > 0 THEN 1 ELSE 0

RECURSIVE GCD(_, _)
GCD(a, b) == IF b = 0 THEN a ELSE GCD(b, a % b)

NaN == <<0, 0>>
PosInf == <<1, 0>>
NegInf == <<-1, 0>>
Zero == <<0, 1>>
One == <<1, 1>>

IsNaN(x) == x[2] = 0 /\ x[1] = 0
IsInf(x) == x[2] = 0 /\ x[1] # 0
IsFinite(x) == x[2] > 0

\* the float n/d for integers n and d # 0
Frac(n, d) ==
    LET g == GCD(Abs(n), Abs(d))
    IN  <<(Sign(d) * n) \div g, Abs(d) \div g>>

\* float64(i)
FromInt(i) == <<i, 1>>

\* a / b in IEEE 754 arithmetic
FDiv(a, b) ==
    IF IsNaN(a) \/ IsNaN(b) THEN NaN
    ELSE IF IsInf(a) THEN (IF IsInf(b) THEN NaN
                           ELSE IF b[1] < 0 THEN <<-a[1], 0>> ELSE a)
    ELSE IF IsInf(b) THEN Zero
    ELSE IF b[1] = 0 THEN (IF a[1] = 0 THEN NaN ELSE <<Sign(a[1]), 0>>)
    ELSE Frac(a[1] * b[2], a[2] * b[1])

\* a * b for finite b # 0
FMul(a, b) ==
    IF IsNaN(a) THEN NaN
    ELSE IF IsInf(a) THEN <<a[1] * Sign(b[1]), 0>>
    ELSE Frac(a[1] * b[1], a[2] * b[2])

\* a > b; false when either is NaN
FGt(a, b) ==
    IF IsNaN(a) \/ IsNaN(b) THEN FALSE
    ELSE IF IsInf(a) THEN a[1] > 0 /\ a # b
    ELSE IF IsInf(b) THEN b[1] < 0
    ELSE a[1] * b[2] > b[1] * a[2]

\* a >= b; false when either is NaN
FGe(a, b) == ~IsNaN(a) /\ ~IsNaN(b) /\ (a = b \/ FGt(a, b))

\* int(x) for finite x: truncation towards zero
Trunc(x) == Sign(x[1]) * (Abs(x[1]) \div x[2])


(* ------------------------- program constants --------------------------- *)

\* const fixed = 19 + 22: the width reserved for the non-bar parts of a row
fixed == 41

\* "if available < 10 { available = 10 }"
MinAvailable == 10

\* "%-10s": the adaptor:port part of the header is padded to 10 cells
HeaderPad == 10

\* viewport.New(80, 20) and termWidth: 80
DefaultWidth == 80
DefaultHeight == 20

\* "m.vp.Height = msg.Height - 2"
HeightPadding == 2

(* --------------------------- the environment --------------------------- *)

\* what readCounter returns: (value, nil) or (0, err)
ReadOk(v) == [err |-> FALSE, v |-> v]
ReadErr == [err |-> TRUE, v |-> 0]
ReadResults(vals) == {ReadOk(v) : v \in vals} \cup {ReadErr}

\* The readCounter calls of one pass over one port: the receive counter
\* first, the transmit counter only when the receive read succeeded.
PortReads(vals) ==
    {<<ReadErr>>}
    \cup {<<ReadOk(r), t>> : r \in vals, t \in ReadResults(vals)}

ReadsFailed(rd) == rd[1].err \/ rd[2].err

\* The text of a rate file; rateOk is whether the file can be read.
Rate100 == "100 Gb/sec"
Rate40 == "40 Gb/sec (4X QDR)"

\* An entry <adaptor>/ports/<port> of /sys/class/infiniband.  dir: the
\* adaptor and the port are directories that resolve; rxFile, txFile: the
\* counter files exist; rateOk, rate: the rate file.
PortDir(adaptor, port, rateOk, rate) ==
    [Adaptor |-> adaptor, Port |-> port, dir |-> TRUE, rxFile |-> TRUE,
     txFile |-> TRUE, rateOk |-> rateOk, rate |-> rate]

PortA == PortDir("mlx5_0", "1", TRUE, Rate100)
PortB == PortDir("mlx5_1", "1", TRUE, Rate40)

\* a port whose rate file cannot be read, and one whose rate file holds no
\* number
PortNoRate == PortDir("mlx5_2", "1", FALSE, "")
PortBadRate == PortDir("mlx5_3", "1", TRUE, "garbage")

\* /sys/class/infiniband: the port directories in ReadDir order, and the
\* values their counter files take.  Two ports with counters 0..1, or one
\* port with counters 0..MaxCounter.
FsTwoPorts == [ports |-> <<PortA, PortB>>, counters |-> {0, 1}]
FsOnePort == [ports |-> <<PortA>>, counters |-> 0 .. MaxCounter]

\* one port of unknown rate
FsNoRate == [ports |-> <<PortNoRate>>, counters |-> {0, 1}]
FsBadRate == [ports |-> <<PortBadRate>>, counters |-> {0, 1}]

\* two ports without traffic: the counters stay 0, the reads may fail
FsTwoIdle == [ports |-> <<PortA, PortB>>, counters |-> {0}]

Adaptors(fs) == {fs.ports[k].Adaptor : k \in 1 .. Len(fs.ports)}

\* the values of the -interval flag, in milliseconds
Intervals == {-1000, 0, 500, 1000}

\* where the program is started: two ports polled every second, one port
\* polled at any of the intervals, or one port of unknown rate polled every
\* second
Deployments ==
    {[fs |-> FsTwoPorts, ms |-> 1000]}
    \cup {[fs |-> FsOnePort, ms |-> ms] : ms \in Intervals}
    \cup {[fs |-> fs, ms |-> 1000] : fs \in {FsNoRate, FsBadRate}}

\* the WindowSizeMsg values the terminal delivers: <<Width, Height>>
WindowSizes == {<<0, 4>>, <<120, 40>>}

QuitKeys == {"q", "ctrl+c"}
NavKeys == {"up", "down"}
Keys == QuitKeys \cup NavKeys

(* ------------------------------- texts -------------------------------- *)

\* the i-th character of a text
Char(s, i) == SubSeq(s, i, i)

\* unicode.IsSpace, for the characters of the model's texts
IsSpace(c) == c \in {" ", "\t", "\n"}

\* the least element of a non-empty set of integers
Least(S) == CHOOSE i \in S : \A j \in S : i <= j

RECURSIVE TrimSpace(_)
\* strings.TrimSpace
TrimSpace(s) ==
    IF s = "" THEN s
    ELSE IF IsSpace(Char(s, 1)) THEN TrimSpace(SubSeq(s, 2, Len(s)))
    ELSE IF IsSpace(Char(s, Len(s))) THEN TrimSpace(SubSeq(s, 1, Len(s) - 1))
    ELSE s

RECURSIVE Fields(_)
\* strings.Fields: the maximal runs of non-space characters, in order
Fields(s) ==
    IF s = "" THEN <<>>
    ELSE IF IsSpace(Char(s, 1)) THEN Fields(SubSeq(s, 2, Len(s)))
    ELSE LET spaces == {i \in 1 .. Len(s) : IsSpace(Char(s, i))}
             e == IF spaces = {} THEN Len(s) + 1 ELSE Least(spaces)
         IN  <<SubSeq(s, 1, e - 1)>> \o Fields(SubSeq(s, e, Len(s)))

\* strings.Index, counted from 1; 0 when sub does not occur in s
Index(s, sub) ==
    LET at == {i \in 1 .. Len(s) - Len(sub) + 1 :
                  SubSeq(s, i, i + Len(sub) - 1) = sub}
    IN  IF at = {} THEN 0 ELSE Least(at)

\* strings.Contains
Contains(s, sub) == Index(s, sub) > 0

\* strings.Replace(s, old, new, 1): the first occurrence only
ReplaceFirst(s, old, new) ==
    LET i == Index(s, old)
    IN  IF i = 0 THEN s
        ELSE SubSeq(s, 1, i - 1) \o new \o SubSeq(s, i + Len(old), Len(s))

IsDigit(c) == c \in {"0", "1", "2", "3", "4", "5", "6", "7", "8", "9"}

DigitVal(c) ==
    CASE c = "0" -> 0 [] c = "1" -> 1 [] c = "2" -> 2 [] c = "3" -> 3
      [] c = "4" -> 4 [] c = "5" -> 5 [] c = "6" -> 6 [] c = "7" -> 7
      [] c = "8" -> 8 [] c = "9" -> 9

AllDigits(s) == \A i \in 1 .. Len(s) : IsDigit(Char(s, i))

RECURSIVE DigitsValue(_)
\* the number written by a text of decimal digits
DigitsValue(s) ==
    IF s = "" THEN 0
    ELSE DigitsValue(SubSeq(s, 1, Len(s) - 1)) * 10 + DigitVal(Char(s, Len(s)))

RECURSIVE Pow10(_)
Pow10(n) == IF n = 0 THEN 1 ELSE 10 * Pow10(n - 1)

\* strconv.ParseFloat(s, 64) for decimal texts: <<value, ok>>.  An optional
\* sign, digits, an optional point and digits, at least one digit.  The
\* exponent, hexadecimal, "Inf" and "NaN" forms are not modelled: no text
\* of the model is of these forms.
ParseFloat(s) ==
    LET signed == s # "" /\ Char(s, 1) \in {"+", "-"}
        body == IF signed THEN SubSeq(s, 2, Len(s)) ELSE s
        points == {i \in 1 .. Len(body) : Char(body, i) = "."}
        p == IF points = {} THEN Len(body) + 1 ELSE Least(points)
        int == SubSeq(body, 1, p - 1)
        frac == SubSeq(body, p + 1, Len(body))
        ok == AllDigits(int) /\ AllDigits(frac) /\ Len(int) + Len(frac) > 0
        sign == IF signed /\ Char(s, 1) = "-" THEN -1 ELSE 1
    IN  IF ok
        THEN <<Frac(sign * DigitsValue(int \o frac), Pow10(Len(frac))), TRUE>>
        ELSE <<Zero, FALSE>>

\* a parseRate without the check of the number of fields
parseRate_NoFieldCheck(rateStr) ==
    IF Fields(rateStr) = <<>> THEN <<Zero, FALSE>>
    ELSE ParseFloat(Fields(rateStr)[1])

\* parseRate: <<value, ok>>
parseRate(rateStr) ==
    LET fields == Fields(rateStr)
    IN  IF Len(fields) < 2 THEN <<Zero, FALSE>> ELSE ParseFloat(fields[1])

(* ------------------------------- state --------------------------------- *)

VARIABLES
    sysfs,       \* the file system the program runs on
    interval,    \* the -interval flag, in milliseconds
    ignoreList,  \* the -ignore flag: the adaptor names to skip
    phase,       \* "start", "running", "terminated" (tea.Quit), "fatal"
    statuses,    \* model.statuses
    termWidth,   \* model.termWidth
    vp,          \* model.vp: Width, Height, YOffset, set, rows
    timers,      \* tick commands whose timer is running
    inbox,       \* tick messages delivered to the program, not yet handled
    reads,       \* currRx, currTx: the readCounter results of the tick
                 \* just handled, per interface; <<>> after any other step
    probe,       \* the inputs and the result of one computation made on
                 \* its own
    adaptors,    \* the adaptors of the line-oriented program
    stdout       \* the lines the line-oriented program has printed

vars == <<sysfs, interval, ignoreList, phase, statuses, termWidth, vp,
          timers, inbox, reads, probe, adaptors, stdout>>

\* the variables of the line-oriented program alone
lineVars == <<adaptors, stdout>>

(* ----------------------------- discovery ------------------------------- *)

\* readRate: the trimmed text of the port's rate file, or an error
readRate(port) ==
    IF port.rateOk THEN [err |-> FALSE, s |-> TrimSpace(port.rate)]
    ELSE [err |-> TRUE, s |-> ""]

\* the directory getInterfaces lists
basePath == "/sys/class/infiniband"

\* filepath.Join(adaptorPath, "ports", portName, ...): the path of a file
\* under a port's directory
PortPath(port, file) ==
    basePath \o "/" \o port.Adaptor \o "/ports/" \o port.Port \o "/" \o file

\* getInterfaces, lines 97-142: the IBInterface of a port whose initial
\* counter reads rd succeeded
NewInterface(port, rd) ==
    LET rateFull == readRate(port)
        rateStr == IF rateFull.err THEN ""
                   ELSE ReplaceFirst(rateFull.s, "Gb/sec", "Gbps")
        parsed == parseRate(rateStr)
    IN  [Adaptor |-> port.Adaptor,
         Port |-> port.Port,
         rxPath |-> PortPath(port, "counters/port_rcv_data"),
         txPath |-> PortPath(port, "counters/port_xmit_data"),
         ratePath |-> PortPath(port, "rate"),
         prevRx |-> rd[1].v,
         prevTx |-> rd[2].v,
         maxGbps |-> IF ~rateFull.err /\ parsed[2] THEN parsed[1] ELSE Zero,
         rateStr |-> rateStr]

\* the tests of getInterfaces that make it pass over an entry: the adaptor
\* is ignored, a directory does not resolve, a counter file is missing, or
\* an initial counter read init fails
Skipped(ignore, port, init) ==
    \/ port.Adaptor \in ignore
    \/ ~port.dir
    \/ ~port.rxFile
    \/ ~port.txFile
    \/ ReadsFailed(init)

\* a discovery in which an entry that cannot be used ends in an error
getInterfaces_Abort(ignore, fs, init) ==
    LET F[k \in 0 .. Len(fs.ports)] ==
            IF k = 0 THEN <<>>
            ELSE IF fs.ports[k].Adaptor \in ignore THEN F[k - 1]
            ELSE Append(F[k - 1], NewInterface(fs.ports[k], init[k]))
    IN  IF \E k \in 1 .. Len(fs.ports) :
              /\ fs.ports[k].Adaptor \notin ignore
              /\ Skipped(ignore, fs.ports[k], init[k])
        THEN <<>>
        ELSE F[Len(fs.ports)]

\* getInterfaces: the entries that are not passed over, in directory order
getInterfaces(ignore, fs, init) ==
    LET F[k \in 0 .. Len(fs.ports)] ==
            IF k = 0 THEN <<>>
            ELSE IF Skipped(ignore, fs.ports[k], init[k])
                 THEN F[k - 1]
                 ELSE Append(F[k - 1], NewInterface(fs.ports[k], init[k]))
    IN  F[Len(fs.ports)]

(* ------------------------------- layout -------------------------------- *)

Max(a, b) == IF a > b THEN a ELSE b
Min(a, b) == IF a < b THEN a ELSE b

\* lipgloss.Width(header) of "%-10s (%s): " for adaptor:port and rateStr
HeaderWidth(iface) ==
    Max(HeaderPad, Len(iface.Adaptor) + 1 + Len(iface.Port))
    + 2 + Len(iface.rateStr) + 3

\* a width left for the bars without the floor of 10
Available_NoFloor(tw, hw) == tw - hw - fixed

\* available: the width left for the two bars
Available(tw, hw) ==
    IF tw - hw - fixed < MinAvailable THEN MinAvailable ELSE tw - hw - fixed

\* a bar width rounded up instead of down
BarWidth_RoundUp(tw, hw) == (Available(tw, hw) + 1) \div 2

\* barWidth := available / 2
BarWidth(tw, hw) == Available(tw, hw) \div 2

\* a share computed without the test of maxGbps
Pct_NoGuard(value, maxGbps) ==
    LET p == FDiv(value, maxGbps)
    IN  IF FGt(p, One) THEN One ELSE p

\* rxPct / txPct: the share of maxGbps, saturated at 1.0
Pct(value, maxGbps) ==
    IF FGt(maxGbps, Zero)
    THEN LET p == FDiv(value, maxGbps)
         IN  IF FGt(p, One) THEN One ELSE p
    ELSE Zero

\* int(pct*100), the number of the percentage field, for finite pct
PctField(pct) == Trunc(FMul(pct, FromInt(100)))

\* one row of renderContent: what the header, the two bars, the two
\* percentage fields and the two throughput fields are rendered from
RenderRow(stat, tw) ==
    [headerWidth |-> HeaderWidth(stat.iface),
     barWidth |-> BarWidth(tw, HeaderWidth(stat.iface)),
     rxPct |-> Pct(stat.rxValue, stat.iface.maxGbps),
     txPct |-> Pct(stat.txValue, stat.iface.maxGbps),
     rxVal |-> stat.rxValue,
     txVal |-> stat.txValue]

\* renderContent: one row per status, in order (the footer follows)
renderContent(sts, tw) == [i \in 1 .. Len(sts) |-> RenderRow(sts[i], tw)]

(* ------------------------------ viewport ------------------------------- *)
(* The viewport of the bubbles library, which is not part of the sources:  *)
(* a content of lines, a height, and a scroll offset that the navigation   *)
(* keys keep between the top and the last offset that fills the viewport.  *)

\* viewport.New(width, height): no content yet
ViewportNew(w, h) ==
    [Width |-> w, Height |-> h, YOffset |-> 0, set |-> FALSE, rows |-> <<>>]

\* the lines of the content: the rows, an empty line and the footer
NumLines(v) == IF v.set THEN Len(v.rows) + 2 ELSE 0

\* the largest scroll offset that still fills the viewport
MaxYOffset(v) == Max(0, NumLines(v) - v.Height)

\* vp.SetContent(content): an offset past the last line goes to the bottom
ViewportSetContent(v, rows) ==
    LET w == [v EXCEPT !.set = TRUE, !.rows = rows]
    IN  IF w.YOffset > NumLines(w) - 1
        THEN [w EXCEPT !.YOffset = MaxYOffset(w)]
        ELSE w

\* vp.Update(msg): a navigation key scrolls one line, and only within
\* 0 .. MaxYOffset; every other message leaves the viewport as it is
ViewportUpdate(v, msg) ==
    CASE msg = "up" ->
            IF v.YOffset <= 0 THEN v
            ELSE [v EXCEPT !.YOffset = Max(0, Min(MaxYOffset(v), v.YOffset - 1))]
      [] msg = "down" ->
            IF v.YOffset >= MaxYOffset(v) THEN v
            ELSE [v EXCEPT !.YOffset = Max(0, Min(MaxYOffset(v), v.YOffset + 1))]
      [] OTHER -> v

(* ------------------------------- sampler ------------------------------- *)

\* m.interval.Seconds()
Seconds(ms) == Frac(ms, 1000)

\* a rate that is not divided by the interval
Gbps_PerTick(diff, ms) == FromInt(diff * 100)

\* float64(diff) * 8 / 1e9 / m.interval.Seconds(), diff in counter units
Gbps(diff, ms) == FDiv(FromInt(diff * 100), Seconds(ms))

\* a tick body that advances the previous counters and leaves the rates
SampleStatus_PrevOnly(s, rd, ms) ==
    IF ReadsFailed(rd) THEN s
    ELSE [s EXCEPT !.iface.prevRx = rd[1].v, !.iface.prevTx = rd[2].v]

\* a tick body that does not check the transmit read
SampleStatus_TxUnchecked(s, rd, ms) ==
    IF rd[1].err THEN s
    ELSE [iface |-> [s.iface EXCEPT !.prevRx = rd[1].v, !.prevTx = rd[2].v],
          rxValue |-> Gbps(rd[1].v - s.iface.prevRx, ms),
          txValue |-> Gbps(rd[2].v - s.iface.prevTx, ms)]

\* a tick body that builds a fresh IBInterface holding only the new
\* counters, so that the paths, the maximum and the label are lost
SampleStatus_Rebuilt(s, rd, ms) ==
    IF ReadsFailed(rd) THEN s
    ELSE [iface |-> [Adaptor |-> s.iface.Adaptor, Port |-> s.iface.Port,
                     rxPath |-> "", txPath |-> "", ratePath |-> "",
                     prevRx |-> rd[1].v, prevTx |-> rd[2].v,
                     maxGbps |-> Zero, rateStr |-> ""],
          rxValue |-> Gbps(rd[1].v - s.iface.prevRx, ms),
          txValue |-> Gbps(rd[2].v - s.iface.prevTx, ms)]

\* the body of the tick loop for one status, lines 272-291
SampleStatus(s, rd, ms) ==
    IF ReadsFailed(rd) THEN s
    ELSE [iface |-> [s.iface EXCEPT !.prevRx = rd[1].v, !.prevTx = rd[2].v],
          rxValue |-> Gbps(rd[1].v - s.iface.prevRx, ms),
          txValue |-> Gbps(rd[2].v - s.iface.prevTx, ms)]

(* ------------------------------ formatting ---------------------------- *)

RECURSIVE IntText(_)
\* the decimal digits of n >= 0
IntText(n) ==
    IF n < 10 THEN SubSeq("0123456789", n + 1, n + 1)
    ELSE IntText(n \div 10) \o SubSeq("0123456789", (n % 10) + 1, (n % 10) + 1)

RECURSIVE PadLeft(_, _, _)
\* s filled on the left with the character c up to the width w
PadLeft(s, w, c) == IF Len(s) >= w THEN s ELSE PadLeft(c \o s, w, c)

RECURSIVE PadRight(_, _)
\* "%-Ns": s filled on the right with spaces up to the width w
PadRight(s, w) == IF Len(s) >= w THEN s ELSE PadRight(s \o " ", w)

RECURSIVE Repeat(_, _)
\* strings.Repeat
Repeat(s, n) == IF n <= 0 THEN "" ELSE s \o Repeat(s, n - 1)

\* the tenths of |x| for finite x, halves rounded up (the rates of the
\* model are whole numbers)
Tenths(x) == (2 * 10 * Abs(x[1]) + x[2]) \div (2 * x[2])

\* |x| with one decimal, the ".1f" of a verb
Fixed1(x) == IntText(Tenths(x) \div 10) \o "." \o IntText(Tenths(x) % 10)

\* fmt.Sprintf("%07.1f", x): zeros after the sign up to the width 7; an
\* infinity or NaN is filled with spaces
FormatZero7(x) ==
    IF IsNaN(x) THEN PadLeft("NaN", 7, " ")
    ELSE IF IsInf(x) THEN PadLeft(IF x[1] > 0 THEN "+Inf" ELSE "-Inf", 7, " ")
    ELSE IF x[1] < 0 THEN "-" \o PadLeft(Fixed1(x), 6, "0")
    ELSE PadLeft(Fixed1(x), 7, "0")

\* fmt.Sprintf("% 6.1f", x): a space in place of the plus sign, spaces up
\* to the width 6
FormatSpace6(x) ==
    IF IsNaN(x) THEN PadLeft("NaN", 6, " ")
    ELSE IF IsInf(x) THEN PadLeft(IF x[1] > 0 THEN " Inf" ELSE "-Inf", 6, " ")
    ELSE PadLeft((IF x[1] < 0 THEN "-" ELSE " ") \o Fixed1(x), 6, " ")

\* fmt.Sprintf("%4d%%", n)
FormatPct(n) ==
    PadLeft((IF n < 0 THEN "-" ELSE "") \o IntText(Abs(n)), 4, " ") \o "%"

(* ---------------------------- the row text ---------------------------- *)

\* rxBar.View(): the progress bar of the bubbles library, which is not
\* part of the sources, taken to fill exactly the width it is given
BarView(w) == Repeat("#", w)

\* header: "%-10s" of adaptor:port, then the rate in parentheses
HeaderText(iface) ==
    PadRight(iface.Adaptor \o ":" \o iface.Port, HeaderPad)
    \o " (" \o iface.rateStr \o "): "

\* line, lines 244-252, for a status with finite rates: the header and
\* "↑ %s %s %s   ↓ %s %s %s" of the bars, percentage fields and rates
RowLine(stat, tw) ==
    LET row == RenderRow(stat, tw)
    IN  HeaderText(stat.iface)
        \o "↑ " \o BarView(row.barWidth)
        \o " " \o FormatPct(PctField(row.rxPct))
        \o " " \o FormatZero7(row.rxVal) \o " Gbps"
        \o "   ↓ " \o BarView(row.barWidth)
        \o " " \o FormatPct(PctField(row.txPct))
        \o " " \o FormatZero7(row.txVal) \o " Gbps"

(* ------------------------------- actions ------------------------------- *)

\* the probe of a run of the program: no layout is computed on its own
NoProbe == [tw |-> 0, hw |-> 0, done |-> FALSE, available |-> 0, barWidth |-> 0]

\* p.Run(): the event loop hands messages to Update until Update has
\* returned tea.Quit.  (The runtime is not part of the sources; a message
\* that overtakes the quit message of tea.Quit is not modelled.)
LoopRuns == phase = "running"

\* tea.Quit ends the loop
Quit == "terminated"

\* cmds = append(cmds, tick(m.interval)): one more tick command
ScheduleTick_Dropped(t) == t

ScheduleTick(t) == t + 1

\* the state in which main starts, after flag.Parse, in deployment d
Start(d) ==
    /\ sysfs = d.fs
    /\ interval = d.ms
    /\ ignoreList \in SUBSET Adaptors(d.fs)
    /\ phase = "start"
    /\ statuses = <<>>
    /\ termWidth = 0
    /\ vp = ViewportNew(0, 0)
    /\ timers = 0
    /\ inbox = 0
    /\ reads = <<>>
    /\ probe = NoProbe
    /\ adaptors = <<>>
    /\ stdout = <<>>

Init == \E d \in Deployments : Start(d)

\* initialModel: no interface is fatal, else the model with zero rates
initialModel(ifaces) ==
    [i \in 1 .. Len(ifaces) |->
        [iface |-> ifaces[i], rxValue |-> Zero, txValue |-> Zero]]

\* a main that starts the program without the test for an empty list
Main_NoEmptyCheck ==
    /\ phase = "start"
    /\ \E init \in [1 .. Len(sysfs.ports) -> PortReads(sysfs.counters)] :
          /\ phase' = "running"
          /\ statuses' = initialModel(getInterfaces(ignoreList, sysfs, init))
          /\ termWidth' = DefaultWidth
          /\ vp' = ViewportNew(DefaultWidth, DefaultHeight)
          /\ timers' = ScheduleTick(0)
    /\ UNCHANGED <<lineVars, probe, sysfs, interval, ignoreList, inbox, reads>>

\* main: build the model and start the program, whose Init schedules the
\* first tick; an empty interface list ends in log.Fatal
Main ==
    /\ phase = "start"
    /\ \E init \in [1 .. Len(sysfs.ports) -> PortReads(sysfs.counters)] :
          LET ifaces == getInterfaces(ignoreList, sysfs, init)
          IN  IF ifaces = <<>>
              THEN /\ phase' = "fatal"
                   /\ UNCHANGED <<statuses, termWidth, vp, timers>>
              ELSE /\ phase' = "running"
                   /\ statuses' = initialModel(ifaces)
                   /\ termWidth' = DefaultWidth
                   /\ vp' = ViewportNew(DefaultWidth, DefaultHeight)
                   /\ timers' = ScheduleTick(0)
    /\ UNCHANGED <<lineVars, probe, sysfs, interval, ignoreList, inbox, reads>>

\* tick: the timer of a tick command runs out and its tickMsg is sent
TimerFire ==
    /\ LoopRuns
    /\ timers > 0
    /\ timers' = timers - 1
    /\ inbox' = inbox + 1
    /\ reads' = <<>>
    /\ UNCHANGED <<lineVars, probe, sysfs, interval, ignoreList, phase, statuses, termWidth,
                   vp>>

\* Update, case tickMsg: sample every interface, render, schedule the next
\* tick, and hand the message to the viewport
UpdateTick ==
    /\ LoopRuns
    /\ inbox > 0
    /\ \E rd \in [1 .. Len(statuses) -> PortReads(sysfs.counters)] :
          /\ statuses' = [i \in 1 .. Len(statuses) |->
                             SampleStatus(statuses[i], rd[i], interval)]
          /\ reads' = rd
    /\ vp' = ViewportUpdate(
                ViewportSetContent(vp, renderContent(statuses', termWidth)),
                "tick")
    /\ inbox' = inbox - 1
    /\ timers' = ScheduleTick(timers)
    /\ UNCHANGED <<lineVars, probe, sysfs, interval, ignoreList, phase, termWidth>>

\* a resize that renders the rows with the width it had before
UpdateWindowSize_StaleRender ==
    /\ LoopRuns
    /\ \E sz \in WindowSizes :
          /\ termWidth' = sz[1]
          /\ vp' = ViewportSetContent(
                      [vp EXCEPT !.Width = sz[1],
                                 !.Height = sz[2] - HeightPadding],
                      renderContent(statuses, termWidth))
    /\ reads' = <<>>
    /\ UNCHANGED <<lineVars, probe, sysfs, interval, ignoreList, phase, statuses, timers,
                   inbox>>

\* Update, case tea.WindowSizeMsg: take the size, render, return
UpdateWindowSize ==
    /\ LoopRuns
    /\ \E sz \in WindowSizes :
          /\ termWidth' = sz[1]
          /\ vp' = ViewportSetContent(
                      [vp EXCEPT !.Width = sz[1],
                                 !.Height = sz[2] - HeightPadding],
                      renderContent(statuses, sz[1]))
    /\ reads' = <<>>
    /\ UNCHANGED <<lineVars, probe, sysfs, interval, ignoreList, phase, statuses, timers,
                   inbox>>

\* a quit that also falls through to the end of Update and schedules
UpdateKeyQuit_Reschedule ==
    /\ LoopRuns
    /\ \E k \in QuitKeys : phase' = Quit
    /\ timers' = ScheduleTick(timers)
    /\ reads' = <<>>
    /\ UNCHANGED <<lineVars, probe, sysfs, interval, ignoreList, statuses, termWidth, vp,
                   inbox>>

\* Update, case tea.KeyMsg "q" / "ctrl+c": return m, tea.Quit
UpdateKeyQuit ==
    /\ LoopRuns
    /\ \E k \in QuitKeys : phase' = Quit
    /\ reads' = <<>>
    /\ UNCHANGED <<lineVars, probe, sysfs, interval, ignoreList, statuses, termWidth, vp,
                   timers, inbox>>

\* a key case that ends like the tick case, with a tick command
UpdateKeyOther_Reschedule ==
    /\ LoopRuns
    /\ \E k \in NavKeys : vp' = ViewportUpdate(ViewportUpdate(vp, k), k)
    /\ timers' = ScheduleTick(timers)
    /\ reads' = <<>>
    /\ UNCHANGED <<lineVars, probe, sysfs, interval, ignoreList, phase, statuses, termWidth,
                   inbox>>

\* Update, case tea.KeyMsg, any other key: the viewport gets the message
\* in the default branch and again after the switch
UpdateKeyOther ==
    /\ LoopRuns
    /\ \E k \in NavKeys : vp' = ViewportUpdate(ViewportUpdate(vp, k), k)
    /\ reads' = <<>>
    /\ UNCHANGED <<lineVars, probe, sysfs, interval, ignoreList, phase, statuses, termWidth,
                   timers, inbox>>

Next ==
    \/ Main
    \/ TimerFire
    \/ UpdateTick
    \/ UpdateWindowSize
    \/ UpdateKeyQuit
    \/ UpdateKeyOther

Spec == Init /\ [][Next]_vars

\* The program under fairness: main runs, the timer of a tick command runs
\* out, and the loop receives a waiting message (senders on the message
\* channel are served in arrival order).  It is started with one port at
\* any interval, or with two ports without traffic.
FairDeployments ==
    {[fs |-> FsTwoIdle, ms |-> 1000]}
    \cup {[fs |-> FsOnePort, ms |-> ms] : ms \in Intervals}

InitFair == \E d \in FairDeployments : Start(d)

SpecFair ==
    /\ InitFair
    /\ [][Next]_vars
    /\ WF_vars(Main)
    /\ WF_vars(TimerFire)
    /\ WF_vars(UpdateTick)

(* ------------------------ the layout on its own ------------------------ *)

\* the header widths tried: from an empty rate text up to MaxHeader
HeaderWidths == (HeaderPad + 5) .. MaxHeader

InitLayout ==
    /\ sysfs = FsOnePort
    /\ interval = 1000
    /\ ignoreList = {}
    /\ phase = "layout"
    /\ statuses = <<>>
    /\ termWidth = 0
    /\ vp = ViewportNew(0, 0)
    /\ timers = 0
    /\ inbox = 0
    /\ reads = <<>>
    /\ adaptors = <<>>
    /\ stdout = <<>>
    /\ \E tw \in 0 .. MaxWidth, hw \in HeaderWidths :
          probe = [tw |-> tw, hw |-> hw, done |-> FALSE,
                   available |-> 0, barWidth |-> 0]

\* renderContent, lines 217-222, for one terminal width and header width
ApplyLayout ==
    /\ phase = "layout"
    /\ ~probe.done
    /\ probe' = [probe EXCEPT !.done = TRUE,
                              !.available = Available(probe.tw, probe.hw),
                              !.barWidth = BarWidth(probe.tw, probe.hw)]
    /\ UNCHANGED <<sysfs, interval, ignoreList, phase, statuses, termWidth,
                   vp, timers, inbox, reads, adaptors, stdout>>

NextLayout == ApplyLayout

SpecLayout == InitLayout /\ [][NextLayout]_vars

(* ----------------------- the rate file on its own ---------------------- *)

\* rate files of up to MaxTokens words
MaxTokens == 3

\* the words of the rate files tried
RateTokens ==
    {"400", "12.5", "-5", ".", "garbage", "Gb/sec", "(4X", "NDR)", "2Gb/sec"}

TokenSeqs ==
    UNION {[1 .. n -> RateTokens] : n \in 0 .. MaxTokens}
    \cup {<<"400", "Gb/sec", "(4X", "NDR)">>}

RECURSIVE Join(_)
\* the words separated by single spaces
Join(tokens) ==
    IF tokens = <<>> THEN ""
    ELSE IF Len(tokens) = 1 THEN tokens[1]
    ELSE tokens[1] \o " " \o Join(Tail(tokens))

\* the variables of the program while a function is applied on its own
progVars ==
    <<sysfs, interval, ignoreList, phase, statuses, termWidth, vp, timers,
      inbox, reads, adaptors, stdout>>

NoProgram(ph) ==
    /\ sysfs = FsOnePort
    /\ interval = 1000
    /\ ignoreList = {}
    /\ phase = ph
    /\ statuses = <<>>
    /\ termWidth = 0
    /\ vp = ViewportNew(0, 0)
    /\ timers = 0
    /\ inbox = 0
    /\ reads = <<>>
    /\ adaptors = <<>>
    /\ stdout = <<>>

\* a rate file made of the words tokens, with or without the final newline
\* (nl), readable or not (rateOk)
InitRate ==
    /\ NoProgram("rate")
    /\ \E tokens \in TokenSeqs, nl \in BOOLEAN, rateOk \in BOOLEAN :
          probe = [tokens |-> tokens, nl |-> nl, rateOk |-> rateOk,
                   done |-> FALSE, parsed |-> <<Zero, FALSE>>,
                   iface |-> <<>>]

\* the text of the probe's rate file
RateFile(pr) == Join(pr.tokens) \o (IF pr.nl THEN "\n" ELSE "")

\* getInterfaces, lines 119-142, for one port with the probe's rate file,
\* and parseRate applied to the text of the file as readRate returns it
ApplyRate ==
    /\ phase = "rate"
    /\ ~probe.done
    /\ LET port == [Adaptor |-> "mlx5_0", Port |-> "1",
                    rateOk |-> probe.rateOk, rate |-> RateFile(probe)]
       IN  probe' = [probe EXCEPT
                        !.done = TRUE,
                        !.parsed = parseRate(TrimSpace(RateFile(probe))),
                        !.iface = NewInterface(port, <<ReadOk(0), ReadOk(0)>>)]
    /\ UNCHANGED progVars

NextRate == ApplyRate

SpecRate == InitRate /\ [][NextRate]_vars

(* ------------------------ discovery on its own ------------------------- *)

RECURSIVE Split(_, _)
\* strings.Split for a separator of one character
Split(s, sep) ==
    LET i == Index(s, sep)
    IN  IF i = 0 THEN <<s>>
        ELSE <<SubSeq(s, 1, i - 1)>> \o Split(SubSeq(s, i + 1, Len(s)), sep)

\* main, lines 333-338: the map of the names of the -ignore flag
IgnoreMap(ignoreFlag) ==
    IF ignoreFlag = "" THEN {}
    ELSE LET names == Split(ignoreFlag, ",")
         IN  {TrimSpace(names[k]) : k \in 1 .. Len(names)}

\* the names given to -ignore: adaptors, and an adaptor with its port
IgnoreNames ==
    {<<>>, <<"mlx5_0">>, <<"mlx5_1">>, <<"mlx5_0", "mlx5_1">>,
     <<"mlx5_1", "mlx5_0">>, <<"mlx5_0:1">>, <<"mlx5_9", "mlx5_1">>}

RECURSIVE JoinWith(_, _)
JoinWith(names, sep) ==
    IF names = <<>> THEN ""
    ELSE IF Len(names) = 1 THEN names[1]
    ELSE names[1] \o sep \o JoinWith(Tail(names), sep)

\* an entry of kind "ok", or one that is no directory, or one without one
\* of its counter files
Entry(adaptor, port, kind) ==
    [PortDir(adaptor, port, TRUE, Rate100) EXCEPT
        !.dir = kind # "nodir",
        !.rxFile = kind # "norx",
        !.txFile = kind # "notx"]

EntryKinds == {"ok", "nodir", "norx", "notx"}

\* two ports of one adaptor and one port of another, each of any kind
DiscoveryFs ==
    {[ports |-> <<Entry("mlx5_0", "1", k[1]), Entry("mlx5_0", "2", k[2]),
                  Entry("mlx5_1", "1", k[3])>>,
      counters |-> {0}] : k \in [1 .. 3 -> EntryKinds]}

InitDiscovery ==
    /\ NoProgram("discovery")
    /\ \E fs \in DiscoveryFs, names \in IgnoreNames, sep \in {",", ", "},
          init \in [1 .. 3 -> PortReads({0})] :
          probe = [fs |-> fs, names |-> names,
                   ignoreFlag |-> JoinWith(names, sep), init |-> init,
                   done |-> FALSE, ifaces |-> <<>>]

\* main, lines 331-338, and getInterfaces
ApplyDiscovery ==
    /\ phase = "discovery"
    /\ ~probe.done
    /\ probe' = [probe EXCEPT
                    !.done = TRUE,
                    !.ifaces = getInterfaces(IgnoreMap(probe.ignoreFlag),
                                             probe.fs, probe.init)]
    /\ UNCHANGED progVars

NextDiscovery == ApplyDiscovery

SpecDiscovery == InitDiscovery /\ [][NextDiscovery]_vars

(* --------------------- the line-oriented program ----------------------- *)
(* The first program of src/unnamed/part_000: it discovers port 1 of each  *)
(* adaptor, prints a header and a separator, and then one line per         *)
(* interval.                                                               *)

\* the line-oriented program runs for MaxTicks intervals
MaxTicks == 2

\* readRate of part_000: the first two fields with the unit rewritten, or
\* the whole text when there are fewer
lineReadRate(content) ==
    LET trimmed == TrimSpace(content)
        fields == Fields(trimmed)
    IN  IF Len(fields) >= 2
        THEN ReplaceFirst(fields[1] \o " " \o fields[2], "Gb/sec", "Gbps")
        ELSE trimmed

\* the IBAdaptor of a port whose initial counter reads rd succeeded; a rate
\* file that cannot be read is taken to be absent ("N/A")
NewAdaptor(port, rd) ==
    [Name |-> port.Adaptor,
     prevRx |-> rd[1].v,
     prevTx |-> rd[2].v,
     portRate |-> IF port.rateOk THEN lineReadRate(port.rate) ELSE "N/A"]

\* the discovery loop of main, part_000 lines 77-141
getAdaptors(ignore, fs, init) ==
    LET F[k \in 0 .. Len(fs.ports)] ==
            IF k = 0 THEN <<>>
            ELSE IF Skipped(ignore, fs.ports[k], init[k])
                 THEN F[k - 1]
                 ELSE Append(F[k - 1], NewAdaptor(fs.ports[k], init[k]))
    IN  F[Len(fs.ports)]

\* the header line: "Time" and one column per adaptor
HeaderLine(ads) ==
    LET F[k \in 0 .. Len(ads)] ==
            IF k = 0 THEN PadRight("Time", 8)
            ELSE F[k - 1] \o " | "
                 \o PadRight(ads[k].Name \o "(" \o ads[k].portRate \o ")", 14)
    IN  F[Len(ads)]

SeparatorLine(ads) == Repeat("-", 8 + Len(ads) * 18)

\* time.Now().Format("15:04:05"): eight characters
Timestamp == "15:04:05"

\* what one pass of the loop body prints for an adaptor: nothing after a
\* failed read ("continue"), else the pair of rates
PrintPair(a, rd, ms) ==
    IF ReadsFailed(rd) THEN ""
    ELSE " |↑ " \o FormatSpace6(Gbps(rd[1].v - a.prevRx, ms))
         \o "/↓ " \o FormatSpace6(Gbps(rd[2].v - a.prevTx, ms))

\* the adaptor after one pass of the loop body
SampleAdaptor(a, rd) ==
    IF ReadsFailed(rd) THEN a
    ELSE [a EXCEPT !.prevRx = rd[1].v, !.prevTx = rd[2].v]

\* the line of one interval: the time and what each pass printed
TickLine(ads, rd, ms) ==
    LET F[k \in 0 .. Len(ads)] ==
            IF k = 0 THEN PadRight(Timestamp, 8)
            ELSE F[k - 1] \o PrintPair(ads[k], rd[k], ms)
    IN  F[Len(ads)]

LineDeployments ==
    {[fs |-> FsTwoPorts, ms |-> 1000], [fs |-> FsOnePort, ms |-> 500]}

InitLine == \E d \in LineDeployments : Start(d)

\* main up to the loop: discovery, the header and the separator
LineMain ==
    /\ phase = "start"
    /\ \E init \in [1 .. Len(sysfs.ports) -> PortReads(sysfs.counters)] :
          LET ads == getAdaptors(ignoreList, sysfs, init)
          IN  IF ads = <<>>
              THEN /\ phase' = "fatal"
                   /\ UNCHANGED lineVars
              ELSE /\ phase' = "printing"
                   /\ adaptors' = ads
                   /\ stdout' = <<HeaderLine(ads), SeparatorLine(ads)>>
    /\ UNCHANGED <<probe, sysfs, interval, ignoreList, statuses, termWidth, vp,
                   timers, inbox, reads>>

\* one round of the loop: sleep, then print the line of this interval
LineTick ==
    /\ phase = "printing"
    /\ Len(stdout) < 2 + MaxTicks
    /\ \E rd \in [1 .. Len(adaptors) -> PortReads(sysfs.counters)] :
          /\ adaptors' = [i \in 1 .. Len(adaptors) |->
                             SampleAdaptor(adaptors[i], rd[i])]
          /\ stdout' = Append(stdout, TickLine(adaptors, rd, interval))
          /\ reads' = rd
    /\ UNCHANGED <<probe, sysfs, interval, ignoreList, phase, statuses,
                   termWidth, vp, timers, inbox>>

NextLine == LineMain \/ LineTick

SpecLine == InitLine /\ [][NextLine]_vars

(* ------------------------------- claims -------------------------------- *)

Ifaces == 1 .. Len(statuses)

\* a step that handles a tick message
TickStep == inbox' < inbox

\* status s after both reads of rd succeeded: all four fields replaced,
\* the rates from the delta against the previous counters of s
Replaced(s, t, rd) ==
    /\ ~ReadsFailed(rd)
    /\ t.iface.prevRx = rd[1].v
    /\ t.iface.prevTx = rd[2].v
    /\ t.rxValue = Gbps(rd[1].v - s.iface.prevRx, interval)
    /\ t.txValue = Gbps(rd[2].v - s.iface.prevTx, interval)

\* C1: in every step of the running loop each interface either keeps all
\* of prevRx, prevTx, rxValue, txValue or has all four replaced from the
\* step's two counter reads, the rates computed against the old counters.
C1_TickAtomic ==
    [][phase = "running" =>
        \A i \in Ifaces :
            \/ /\ statuses'[i].iface.prevRx = statuses[i].iface.prevRx
               /\ statuses'[i].iface.prevTx = statuses[i].iface.prevTx
               /\ statuses'[i].rxValue = statuses[i].rxValue
               /\ statuses'[i].txValue = statuses[i].txValue
            \/ /\ TickStep
               /\ Replaced(statuses[i], statuses'[i], reads'[i])]_vars

\* C1 witness: a tick has replaced one interface's counters and rates
\* (a non-zero rate from a changed counter)
C1_Witness ==
    /\ phase = "running"
    /\ reads # <<>>
    /\ \E i \in Ifaces :
          /\ ~ReadsFailed(reads[i])
          /\ statuses[i].iface.prevRx = reads[i][1].v
          /\ statuses[i].rxValue # Zero
          /\ statuses[i].txValue # Zero

\* C2: on a tick, an interface with a failed read keeps its four fields,
\* every interface whose two reads succeed is replaced, and the tick ends
\* with the content rendered from the new statuses and a tick outstanding.
C2_FailedReadIsolated ==
    [][TickStep =>
        /\ \A i \in Ifaces :
              IF ReadsFailed(reads'[i])
              THEN statuses'[i] = statuses[i]
              ELSE Replaced(statuses[i], statuses'[i], reads'[i])
        /\ vp'.set
        /\ vp'.rows = renderContent(statuses', termWidth)
        /\ timers' = timers + 1]_vars

\* C2 witness: after a tick, one interface's receive read succeeded and its
\* transmit read failed, while another interface was sampled
C2_Witness ==
    /\ phase = "running"
    /\ reads # <<>>
    /\ \E i, j \in Ifaces :
          /\ i # j
          /\ Len(reads[i]) = 2 /\ ~reads[i][1].err /\ reads[i][2].err
          /\ ~ReadsFailed(reads[j])
          /\ statuses[j].rxValue # Zero
          /\ statuses[i].rxValue # Zero

\* C3 (as claimed): with a positive interval, every rendered percentage
\* of an interface with maxGbps > 0 lies in [0, 1] and its percentage
\* field in 0..100.
C3_PctInUnitRange ==
    (phase = "running" /\ interval > 0) =>
        \A i \in 1 .. Len(vp.rows) :
            FGt(statuses[i].iface.maxGbps, Zero) =>
                \A p \in {vp.rows[i].rxPct, vp.rows[i].txPct} :
                    /\ FGe(p, Zero)
                    /\ FGe(One, p)
                    /\ PctField(p) \in 0 .. 100

\* the raw width left for the bars of the probe
RawAvailable == probe.tw - probe.hw - fixed

\* C4 (as claimed): each bar is at least 10 characters wide for every
\* terminal width and header width.
C4_BarAtLeastTen == probe.done => probe.barWidth >= 10

\* C4 (amended): the width available to the two bars together is at least
\* 10 and each bar gets half of it, so each bar is at least 5 characters
\* wide and never zero or negative.
C4_BarAtLeastFive ==
    probe.done =>
        /\ probe.available >= 10
        /\ probe.barWidth >= 5
        /\ (RawAvailable < 10 => probe.barWidth = 5)

\* C4 witness: a terminal narrower than the header plus the fixed overhead,
\* and a terminal of width zero, have been laid out
C4_Witness ==
    /\ probe.done
    /\ probe.tw = 0
    /\ probe.tw < probe.hw + fixed
    /\ probe.barWidth = 5

\* C5: when the floor is not engaged each bar gets floor(available / 2)
\* and the two bars, the header and the fixed overhead fit the terminal.
C5_BarsFit ==
    (probe.done /\ RawAvailable >= 10) =>
        /\ probe.barWidth * 2 <= RawAvailable
        /\ RawAvailable < probe.barWidth * 2 + 2
        /\ 2 * probe.barWidth + probe.hw + fixed <= probe.tw

\* C5 witness: an odd available width above the floor has been halved
C5_Witness ==
    /\ probe.done
    /\ RawAvailable >= 10
    /\ RawAvailable % 2 = 1
    /\ 2 * probe.barWidth + probe.hw + fixed = probe.tw - 1

\* C6 (as claimed): a zero or negative interval is rejected at startup,
\* so no tick is ever handled, and no rate computed, with such an interval.
C6_IntervalValidated == reads # <<>> => interval > 0

\* C7: a handled tick schedules the next one whatever reads failed, a
\* delivered tick leaves the inbox only by being handled, one at a time,
\* with at most one waiting, and ticks are handled again and again unless
\* the loop has terminated or never started.
C7_TicksKeepComing ==
    /\ [][TickStep => /\ inbox' = inbox - 1
                      /\ timers' = timers + 1
                      /\ reads' # <<>>]_vars
    /\ [][inbox' # inbox => TickStep \/ (inbox' = inbox + 1 /\ timers' = timers - 1)]_vars
    /\ [](phase = "running" => timers + inbox = 1)
    /\ ([]<>(reads # <<>>)) \/ <>[](phase \in {Quit, "fatal"})

\* C7 witness: a tick with a failed read has been handled and the next is
\* scheduled, after a resize and a scroll key came in between ticks
C7_Witness ==
    /\ phase = "running"
    /\ reads # <<>>
    /\ \E i \in Ifaces : ReadsFailed(reads[i])
    /\ timers = 1
    /\ termWidth # DefaultWidth
    /\ vp.YOffset > 0

\* a step that handles a window size message
ResizeStep == UpdateWindowSize

\* C8: a resize takes the width and the viewport size from the message and
\* renders all rows with the new width; it changes no interface's prevRx,
\* prevTx, maxGbps, rxValue or txValue; no other step of the loop changes
\* the stored width.
C8_ResizeFrame ==
    /\ [][ResizeStep =>
            /\ \E sz \in WindowSizes :
                  /\ termWidth' = sz[1]
                  /\ vp'.Width = sz[1]
                  /\ vp'.Height = sz[2] - 2
            /\ vp'.set
            /\ Len(vp'.rows) = Len(statuses)
            /\ \A i \in Ifaces :
                  /\ vp'.rows[i].barWidth
                        = BarWidth(termWidth', HeaderWidth(statuses[i].iface))
                  /\ vp'.rows[i].rxVal = statuses[i].rxValue
                  /\ vp'.rows[i].txVal = statuses[i].txValue
            /\ statuses' = statuses]_vars
    /\ [][(phase = "running" /\ termWidth' # termWidth) => ResizeStep]_vars

\* C8 witness: a resize to width 0 after a tick: the rows are rendered with
\* the floor engaged and the sampled rates are still in place
C8_Witness ==
    /\ phase = "running"
    /\ termWidth = 0
    /\ vp.Width = 0
    /\ vp.set
    /\ \E i \in Ifaces :
          /\ statuses[i].rxValue # Zero
          /\ vp.rows[i].barWidth = 5
          /\ vp.rows[i].rxVal = statuses[i].rxValue

\* C9 (as claimed): the scroll offset is never above the top and never
\* past the last offset that the content and the viewport height allow.
C9_ScrollOffsetInBounds ==
    phase = "running" => (0 <= vp.YOffset /\ vp.YOffset <= MaxYOffset(vp))

\* C10: a quit key ends the loop from the running state between two
\* handlers and changes no status, nothing of the viewport, and schedules
\* nothing; nothing else ends the loop; a tick step never ends it; once
\* the loop has ended no step changes anything.
C10_QuitTerminates ==
    /\ [][(phase # Quit /\ phase' = Quit) =>
            /\ UpdateKeyQuit
            /\ phase = "running"
            /\ statuses' = statuses
            /\ vp' = vp
            /\ termWidth' = termWidth
            /\ timers' = timers
            /\ inbox' = inbox]_vars
    /\ [][TickStep => phase' = "running"]_vars
    /\ [][phase = Quit => UNCHANGED vars]_vars

\* C10 witness: the loop has ended after ticks, with a tick still waiting
\* that is never handled
C10_Witness ==
    /\ phase = Quit
    /\ inbox = 1
    /\ \E i \in Ifaces : statuses[i].rxValue # Zero

\* C11: an interface whose maxGbps is 0 is rendered with both percentages
\* exactly 0, whatever its rates are.
C11_ZeroMaxZeroPct ==
    phase = "running" =>
        \A i \in 1 .. Len(vp.rows) :
            statuses[i].iface.maxGbps = Zero =>
                /\ vp.rows[i].rxPct = Zero
                /\ vp.rows[i].txPct = Zero
                /\ vp.rows[i].rxVal = statuses[i].rxValue
                /\ vp.rows[i].txVal = statuses[i].txValue

\* C11 witness: a port with an unreadable rate file has been rendered with
\* non-zero rates in both directions
C11_Witness ==
    /\ phase = "running"
    /\ vp.set
    /\ \E i \in Ifaces :
          /\ statuses[i].iface.rateStr = ""
          /\ statuses[i].iface.maxGbps = Zero
          /\ statuses[i].rxValue # Zero
          /\ statuses[i].txValue # Zero
          /\ vp.rows[i].rxPct = Zero

\* v is the float n / d: for d # 0 the exact quotient, for d = 0 the
\* infinity of n's sign, or NaN when n = 0
IsQuotient(v, n, d) ==
    IF d # 0 THEN v[2] > 0 /\ v[1] * d = n * v[2]
    ELSE v = <<Sign(n), 0>>

\* the gigabits of a counter delta (a counter unit is 12 500 000 000 bytes)
\* times the milliseconds of a second
GigabitMillis(delta) == delta * 100 * 1000

\* C12: on a tick where both reads of an interface succeed, a direction
\* whose counter did not decrease gets the rate (curr - prev) * 8 / 1e9
\* divided by the interval in seconds, prev being the stored counter; with
\* maxGbps 100, prev 0, curr 12 500 000 000 and an interval of one second
\* the rate is 100 and the rendered percentage exactly 1.
C12_RateFormula ==
    [][TickStep =>
        \A i \in Ifaces :
            ~ReadsFailed(reads'[i]) =>
                LET old == statuses[i].iface
                    new == statuses'[i]
                    currRx == reads'[i][1].v
                    currTx == reads'[i][2].v
                IN  /\ currRx >= old.prevRx =>
                          IsQuotient(new.rxValue,
                                     GigabitMillis(currRx - old.prevRx), interval)
                    /\ currTx >= old.prevTx =>
                          IsQuotient(new.txValue,
                                     GigabitMillis(currTx - old.prevTx), interval)
                    /\ (/\ interval = 1000
                        /\ old.maxGbps = FromInt(100)
                        /\ old.prevRx = 0
                        /\ currRx = 1) =>
                          /\ new.rxValue = FromInt(100)
                          /\ vp'.rows[i].rxPct = One]_vars

\* C12 witness: the port of 100 Gb/sec, polled every second, has gone from
\* counter 0 to 12 500 000 000 and shows 100 Gbps at the ceiling of 1.0;
\* the transmit counter went up by twice as much
C12_Witness ==
    /\ phase = "running"
    /\ interval = 1000
    /\ reads # <<>>
    /\ \E i \in Ifaces :
          /\ ~ReadsFailed(reads[i])
          /\ statuses[i].iface.maxGbps = FromInt(100)
          /\ reads[i][1].v = 1
          /\ statuses[i].rxValue = FromInt(100)
          /\ statuses[i].txValue = FromInt(200)
          /\ vp.rows[i].rxPct = One

\* the port directory an interface was discovered from
PortOf(iface) ==
    CHOOSE port \in {sysfs.ports[k] : k \in 1 .. Len(sysfs.ports)} :
        port.Adaptor = iface.Adaptor /\ port.Port = iface.Port

\* the labels that stand for an unknown rate
Sentinels == {"N/A", "?"}

\* C13 (as claimed): an interface whose rate file cannot be read is
\* monitored with maxGbps 0 and a sentinel label, "N/A" or "?".
C13_SentinelLabel ==
    phase = "running" =>
        \A i \in Ifaces :
            ~PortOf(statuses[i].iface).rateOk =>
                /\ statuses[i].iface.maxGbps = Zero
                /\ statuses[i].iface.rateStr \in Sentinels

\* the words that are floating-point numbers, and their values
FloatTokens == {"400", "12.5", "-5"}

TokenValue(w) ==
    CASE w = "400" -> <<400, 1>>
      [] w = "12.5" -> <<25, 2>>
      [] w = "-5" -> <<-5, 1>>

\* C14: parseRate fails exactly when the text has fewer than two words or
\* its first word is not a number, and otherwise returns the value of the
\* first word; getInterfaces then takes that value as maxGbps, or 0 after
\* a failure, and still returns the interface.
C14_ParseFailsExactly ==
    (probe.done /\ probe.rateOk) =>
        LET ok == Len(probe.tokens) >= 2 /\ probe.tokens[1] \in FloatTokens
        IN  /\ probe.parsed[2] <=> ok
            /\ ok => probe.parsed[1] = TokenValue(probe.tokens[1])
            /\ probe.iface.maxGbps
                  = (IF ok THEN TokenValue(probe.tokens[1]) ELSE Zero)
            /\ probe.iface.Adaptor = "mlx5_0"
            /\ probe.tokens = <<"400", "Gb/sec", "(4X", "NDR)">> =>
                  probe.parsed = <<FromInt(400), TRUE>>
            /\ probe.tokens = <<"garbage">> => ~probe.parsed[2]

\* C14 witness: a number on its own has been refused for the missing
\* second word, and the interface is there with maxGbps 0
C14_Witness ==
    /\ probe.done
    /\ probe.rateOk
    /\ probe.tokens = <<"12.5">>
    /\ ~probe.parsed[2]
    /\ probe.iface.maxGbps = Zero
    /\ probe.iface.rateStr = "12.5"

\* C15 (as claimed): for every rate text the label holds no "Gb/sec", and
\* maxGbps is what parsing the text without the rewrite gives.
C15_NoUnitTextLeft ==
    (probe.done /\ probe.rateOk) =>
        /\ ~Contains(probe.iface.rateStr, "Gb/sec")
        /\ probe.iface.maxGbps
              = (IF probe.parsed[2] THEN probe.parsed[1] ELSE Zero)

\* C16: the loop runs (or has run) only with a non-empty list of statuses;
\* a start at which every adaptor is ignored ends fatally; a fatal start
\* has scheduled no tick and is followed by no step.
C16_NoInterfacesFatal ==
    /\ [](phase \in {"running", Quit} => Len(statuses) > 0)
    /\ [][(phase = "start" /\ ignoreList = Adaptors(sysfs)) =>
            phase' = "fatal"]_vars
    /\ [][phase' = "fatal" =>
            statuses' = <<>> /\ timers' = 0 /\ inbox' = 0]_vars
    /\ [][phase = "fatal" => UNCHANGED vars]_vars

\* C16 witness: main has ended fatally with no adaptor ignored, every
\* initial counter read of two ports having failed
C16_Witness ==
    /\ phase = "fatal"
    /\ ignoreList = {}
    /\ Len(sysfs.ports) = 2
    /\ statuses = <<>>
    /\ timers = 0

RECURSIVE Columns(_)
\* the columns of a printed line: the texts between the " |" marks
Columns(line) ==
    LET i == Index(line, " |")
    IN  IF i = 0 THEN <<line>>
        ELSE <<SubSeq(line, 1, i - 1)>>
             \o Columns(SubSeq(line, i + 2, Len(line)))

\* C17 (as claimed): every interval appends exactly one line, and the line
\* holds, after the time, exactly one pair per adaptor, in the order of
\* the adaptors, also when a read of an adaptor fails; the pair of an
\* adaptor whose reads succeed shows its two rates.
C17_OnePairPerInterface ==
    [][(phase = "printing" /\ stdout' # stdout) =>
        /\ Len(stdout') = Len(stdout) + 1
        /\ SubSeq(stdout', 1, Len(stdout)) = stdout
        /\ LET cols == Columns(stdout'[Len(stdout')])
           IN  /\ Len(cols) = 1 + Len(adaptors)
               /\ \A i \in 1 .. Len(adaptors) :
                     ~ReadsFailed(reads'[i]) =>
                         cols[i + 1]
                           = "↑ "
                             \o FormatSpace6(Gbps(reads'[i][1].v
                                                  - adaptors[i].prevRx,
                                                  interval))
                             \o "/↓ "
                             \o FormatSpace6(Gbps(reads'[i][2].v
                                                  - adaptors[i].prevTx,
                                                  interval))]_vars

\* the names of the probe's -ignore flag
Ignored == {probe.names[k] : k \in 1 .. Len(probe.names)}

\* entry k of the probe's file system can be monitored: it is a directory
\* with both counter files whose initial reads succeed
Usable(k) ==
    LET e == probe.fs.ports[k]
    IN  e.dir /\ e.rxFile /\ e.txFile /\ ~ReadsFailed(probe.init[k])

\* the entries discovery is to return, and the place of entry k among them
Wanted == {k \in 1 .. Len(probe.fs.ports) :
              Usable(k) /\ probe.fs.ports[k].Adaptor \notin Ignored}

Rank(k) == Cardinality({m \in Wanted : m <= k})

\* C18: discovery returns no interface of an adaptor named in the ignore
\* flag, and it returns, in directory order, exactly the other entries
\* that are directories with both counter files and successful initial
\* reads: an entry that is passed over takes no other entry with it.
C18_IgnoredAndSkipped ==
    probe.done =>
        /\ \A j \in 1 .. Len(probe.ifaces) :
              probe.ifaces[j].Adaptor \notin Ignored
        /\ Len(probe.ifaces) = Cardinality(Wanted)
        /\ \A k \in Wanted :
              /\ probe.ifaces[Rank(k)].Adaptor = probe.fs.ports[k].Adaptor
              /\ probe.ifaces[Rank(k)].Port = probe.fs.ports[k].Port
              /\ probe.ifaces[Rank(k)].prevRx = probe.init[k][1].v

\* C18 witness: the first adaptor is ignored by name, given with a space
\* after the comma, the second adaptor's port is found although the entry
\* before it has no counter file
C18_Witness ==
    /\ probe.done
    /\ probe.ignoreFlag = "mlx5_9, mlx5_1"
    /\ ~probe.fs.ports[1].rxFile
    /\ ~probe.fs.ports[3].dir
    /\ Len(probe.ifaces) = 1
    /\ probe.ifaces[1].Adaptor = "mlx5_0"
    /\ probe.ifaces[1].Port = "2"

\* C19 (as claimed): on a tick where both reads succeed, a direction whose
\* counter is lower than the stored one gets a negative rate and the
\* stored counter still moves to the lower value; a direction whose
\* counter is not lower (as on the tick after the drop) gets a rate that
\* is not negative.
C19_NegativeSpike ==
    [][TickStep =>
        \A i \in Ifaces :
            ~ReadsFailed(reads'[i]) =>
                LET old == statuses[i].iface
                    new == statuses'[i]
                    currRx == reads'[i][1].v
                    currTx == reads'[i][2].v
                IN  /\ new.iface.prevRx = currRx
                    /\ new.iface.prevTx = currTx
                    /\ currRx < old.prevRx => FGt(Zero, new.rxValue)
                    /\ currTx < old.prevTx => FGt(Zero, new.txValue)
                    /\ currRx >= old.prevRx => FGe(new.rxValue, Zero)
                    /\ currTx >= old.prevTx => FGe(new.txValue, Zero)]_vars

\* a rate of the normal display range: it fills the seven characters of
\* its field
NormalRate(x) == IsFinite(x) /\ x[1] >= 0 /\ x[1] < 10000 * x[2]

\* C20 (as claimed): for rates in the normal range the rendered row, less
\* the header and the two bars, is as wide as the constant fixed, and when
\* the floor of the available width is not engaged the row is no wider
\* than the terminal.
C20_OverheadMatchesRow ==
    (phase = "running" /\ vp.set) =>
        \A i \in Ifaces :
            (NormalRate(statuses[i].rxValue) /\ NormalRate(statuses[i].txValue)) =>
                LET line == RowLine(statuses[i], termWidth)
                    hw == HeaderWidth(statuses[i].iface)
                IN  /\ Len(line) - hw - 2 * vp.rows[i].barWidth = fixed
                    /\ termWidth - hw - fixed >= MinAvailable =>
                          Len(line) <= termWidth

\* the fields of an IBInterface that identify the port and describe its rate
Identity(iface) ==
    <<iface.Adaptor, iface.Port, iface.rxPath, iface.txPath, iface.ratePath,
      iface.maxGbps, iface.rateStr>>

\* the position in the ReadDir order of the port an IBInterface was built from
RECURSIVE PortIndex(_, _)
PortIndex(iface, k) ==
    IF k > Len(sysfs.ports) THEN 0
    ELSE IF /\ sysfs.ports[k].Adaptor = iface.Adaptor
            /\ sysfs.ports[k].Port = iface.Port
         THEN k
         ELSE PortIndex(iface, k + 1)

\* C21: the list of monitored interfaces is fixed at startup.  No step of
\* the loop (tick, resize, key) changes the number of statuses, their order,
\* or any interface's adaptor, port, counter paths, rate path, maximum rate
\* or label; the statuses stand in discovery order; and the rows of every
\* render stand in the order of the statuses, one row per status.
C21_InterfacesFixed ==
    /\ [][phase = "running" =>
            /\ Len(statuses') = Len(statuses)
            /\ \A i \in Ifaces :
                    Identity(statuses'[i].iface) = Identity(statuses[i].iface)]_vars
    /\ [](phase \in {"running", Quit} =>
            /\ \A i \in Ifaces : PortIndex(statuses[i].iface, 1) > 0
            /\ \A i, j \in Ifaces :
                    i < j => PortIndex(statuses[i].iface, 1)
                                < PortIndex(statuses[j].iface, 1)
            /\ vp.set =>
                    /\ Len(vp.rows) = Len(statuses)
                    /\ \A i \in Ifaces :
                            /\ vp.rows[i].headerWidth
                                    = HeaderWidth(statuses[i].iface)
                            /\ vp.rows[i].rxVal = statuses[i].rxValue
                            /\ vp.rows[i].txVal = statuses[i].txValue)

\* two interfaces in discovery order, after a tick that measured traffic on
\* the second only, a resize and a key press that scrolled the view
C21_Witness ==
    /\ phase = "running"
    /\ Len(statuses) = 2
    /\ statuses[1].iface.Adaptor = "mlx5_0"
    /\ statuses[2].iface.Adaptor = "mlx5_1"
    /\ statuses[2].iface.rxPath
            = "/sys/class/infiniband/mlx5_1/ports/1/counters/port_rcv_data"
    /\ statuses[2].iface.maxGbps = FromInt(40)
    /\ statuses[2].iface.rateStr = "40 Gbps (4X QDR)"
    /\ statuses[1].rxValue = Zero
    /\ FGt(statuses[2].rxValue, Zero)
    /\ termWidth = 120
    /\ vp.YOffset > 0

\* C22: whenever the loop is running and no handler is in progress, the
\* content of the viewport is the rows rendered from the current statuses
\* and the current terminal width, the time before the first tick or resize
\* included.
C22_ContentCurrent ==
    LoopRuns => /\ vp.set
                /\ vp.rows = renderContent(statuses, termWidth)

\* the ticks that are scheduled on a timer or delivered and not yet handled
Outstanding == timers + inbox

\* C23: at most one tick is outstanding at every point of every run.
\* Startup schedules exactly one when the loop starts and none when it does
\* not; a step that handles a tick takes one and schedules exactly one; and
\* every other step of the loop (timer expiry, resize, navigation key, quit)
\* schedules none and leaves the number outstanding as it is.
C23_OneTickOutstanding ==
    /\ [](Outstanding <= 1)
    /\ [][phase = "start" =>
            Outstanding' = IF phase' = "running" THEN 1 ELSE 0]_vars
    /\ [][TickStep => timers' - timers = 1 /\ Outstanding' = Outstanding]_vars
    /\ [][LoopRuns /\ ~TickStep =>
            timers' <= timers /\ Outstanding' = Outstanding]_vars

\* a tick that measured traffic has been handled, its successor has been
\* delivered and waits alone, and a resize and a scroll key were handled
C23_Witness ==
    /\ LoopRuns
    /\ inbox = 1
    /\ timers = 0
    /\ \E i \in Ifaces : FGt(statuses[i].rxValue, Zero)
    /\ termWidth = 0
    /\ vp.YOffset > 0

\* a step that handles a key other than the quit keys
KeyStep == UpdateKeyOther

\* C24: a key press other than quit is applied to the viewport once: the
\* step that handles it leaves the viewport as one viewport update with
\* that key leaves it, so the scroll offset moves by at most one line.
C24_KeyAppliedOnce ==
    [][KeyStep => /\ \E k \in NavKeys : vp' = ViewportUpdate(vp, k)
                  /\ Abs(vp'.YOffset - vp.YOffset) <= 1]_vars

=============================================================================
